---- MODULE Spec2Model ----
(***************************************************************************)
(* Two-dimensional Brownian motion by the Langevin equation: the four C    *)
(* programs of the repository as one state machine.                        *)
(*                                                                         *)
(*   langevin     src/gift/問題1/langevin.c    hard-coded parameters,       *)
(*                                             optional seed argument      *)
(*   brownian     src/unnamed/part_001         (brownian_motion.c) CLI      *)
(*                                             parameters, time seed       *)
(*   haruki       src/問題1/report1_haruki.c   CLI parameters or the        *)
(*                                             normal_rand mode, time seed *)
(*   normal_rand  src/問題1/normal_rand.c      sample printer, time seed    *)
(*                                                                         *)
(* A double is modelled as a fixed-point number with SCALE units per 1.0   *)
(* plus the IEEE specials (infinities, NaN); every product, quotient and   *)
(* library function truncates to that grid, sums are exact.  Signed zeros  *)
(* and overflow to infinity are not modelled.  rand()/srand() are the      *)
(* C library's: a linear congruential generator whose state before any     *)
(* srand() is that of srand(1).                                            *)
(***************************************************************************)
EXTENDS Integers, Sequences, FiniteSets, TLC

----------------------------------------------------------------------------
(* Bounds of the model *)

\* fixed-point units per 1.0
SCALE == 1000
\* largest value rand() returns (the library's RAND_MAX, shrunk)
RAND_MAX == 7
\* stands for the default step count 1000
DefaultSteps == 3
\* stands for the default sample count 1000 of the normal_rand mode
DefaultSamples == 2
\* time(NULL) at process start ranges over 1..MaxClock
MaxClock == 2

----------------------------------------------------------------------------
(* Doubles *)

Fin(v) == [k |-> "fin", v |-> v]
Inf(s) == [k |-> "inf", v |-> s]
NaN == [k |-> "nan", v |-> 0]
Zero == Fin(0)
One == Fin(SCALE)
Two == Fin(2 * SCALE)
FromInt(i) == Fin(i * SCALE)

Sign(i) == IF i > 0 THEN 1 ELSE IF i < 0 THEN -1 ELSE 0
Abs(i) == IF i < 0 THEN -i ELSE i
\* integer quotient truncated toward zero, as a rounding of the exact result
TruncDiv(a, b) == Sign(a) * Sign(b) * (Abs(a) \div Abs(b))

FNeg(a) == IF a.k = "nan" THEN NaN ELSE [k |-> a.k, v |-> -a.v]

FAdd(a, b) ==
  IF a.k = "nan" \/ b.k = "nan" THEN NaN
  ELSE IF a.k = "inf" /\ b.k = "inf" THEN (IF a.v = b.v THEN a ELSE NaN)
  ELSE IF a.k = "inf" THEN a
  ELSE IF b.k = "inf" THEN b
  ELSE Fin(a.v + b.v)

FSub(a, b) == FAdd(a, FNeg(b))

FMul(a, b) ==
  IF a.k = "nan" \/ b.k = "nan" THEN NaN
  ELSE IF a.k = "inf" \/ b.k = "inf"
       THEN (IF a.v = 0 \/ b.v = 0 THEN NaN ELSE Inf(Sign(a.v) * Sign(b.v)))
  ELSE Fin(TruncDiv(a.v * b.v, SCALE))

FDiv(a, b) ==
  IF a.k = "nan" \/ b.k = "nan" THEN NaN
  ELSE IF a.k = "inf" THEN (IF b.k = "inf" THEN NaN
                            ELSE Inf(a.v * (IF b.v < 0 THEN -1 ELSE 1)))
  ELSE IF b.k = "inf" THEN Zero
  ELSE IF b.v = 0 THEN (IF a.v = 0 THEN NaN ELSE Inf(Sign(a.v)))
  ELSE Fin(TruncDiv(a.v * SCALE, b.v))

FLess(a, b) ==
  /\ a.k # "nan" /\ b.k # "nan"
  /\ IF a.k = "inf" THEN a.v < 0 /\ ~(b.k = "inf" /\ b.v < 0)
     ELSE IF b.k = "inf" THEN b.v > 0
     ELSE a.v < b.v

IsFinite(a) == a.k = "fin"

\* largest r in lo..hi with r * r <= i, by bisection
RECURSIVE ISqrtIn(_, _, _)
ISqrtIn(i, lo, hi) ==
  IF lo >= hi THEN lo
  ELSE LET mid == (lo + hi + 1) \div 2
       IN IF mid * mid <= i THEN ISqrtIn(i, mid, hi) ELSE ISqrtIn(i, lo, mid - 1)
ISqrt(i) == ISqrtIn(i, 0, 46340)

\* sqrt() of math.h
FSqrt(a) ==
  IF a.k = "nan" THEN NaN
  ELSE IF a.k = "inf" THEN (IF a.v > 0 THEN a ELSE NaN)
  ELSE IF a.v < 0 THEN NaN
  ELSE Fin(ISqrt(a.v * SCALE))

\* log() of math.h on a finite positive x, by ln x = 2 atanh((x-1)/(x+1))
RECURSIVE AtanhSeries(_, _, _)
AtanhSeries(pow, y2, j) ==
  IF j > 41 \/ pow = 0 THEN 0
  ELSE TruncDiv(pow, j) + AtanhSeries(TruncDiv(pow * y2, SCALE), y2, j + 2)

FLog(a) ==
  IF a.k = "nan" THEN NaN
  ELSE IF a.k = "inf" THEN (IF a.v > 0 THEN a ELSE NaN)
  ELSE IF a.v < 0 THEN NaN
  ELSE IF a.v = 0 THEN Inf(-1)
  ELSE LET y == TruncDiv((a.v - SCALE) * SCALE, a.v + SCALE)
           y2 == TruncDiv(y * y, SCALE)
       IN Fin(2 * AtanhSeries(y, y2, 1))

\* M_PI
PI == Fin((314159 * SCALE) \div 100000)

\* cos() of math.h: the argument is folded into [0, pi/2], then the Taylor series
RECURSIVE CosSeries(_, _, _)
CosSeries(term, x2, j) ==
  IF j > 12 \/ term = 0 THEN 0
  ELSE term + CosSeries(-TruncDiv(TruncDiv(term * x2, SCALE), (j + 1) * (j + 2)), x2, j + 2)

FCos(a) ==
  IF a.k # "fin" THEN NaN
  ELSE LET twopi == 2 * PI.v
           x0 == Abs(a.v) % twopi
           x1 == IF x0 > PI.v THEN twopi - x0 ELSE x0
           flip == 2 * x1 > PI.v
           x == IF flip THEN PI.v - x1 ELSE x1
           c == CosSeries(SCALE, TruncDiv(x * x, SCALE), 0)
       IN Fin(IF flip THEN -c ELSE c)

----------------------------------------------------------------------------
(* Command-line arguments: a string is a sequence of one-character strings *)

Digits == <<"0", "1", "2", "3", "4", "5", "6", "7", "8", "9">>
IsDigit(c) == \E d \in 1..10 : Digits[d] = c
DigitVal(c) == (CHOOSE d \in 1..10 : Digits[d] = c) - 1

RECURSIVE SkipSpace(_)
SkipSpace(s) == IF s # <<>> /\ Head(s) = " " THEN SkipSpace(Tail(s)) ELSE s

HasSign(s) == s # <<>> /\ Head(s) \in {"-", "+"}
Unsigned(s) == IF HasSign(s) THEN Tail(s) ELSE s
SignOf(s) == IF s # <<>> /\ Head(s) = "-" THEN -1 ELSE 1

\* value of the leading digits of s, after the digits already read as acc
RECURSIVE LeadingInt(_, _)
LeadingInt(s, acc) ==
  IF s # <<>> /\ IsDigit(Head(s)) THEN LeadingInt(Tail(s), 10 * acc + DigitVal(Head(s)))
  ELSE acc

RECURSIVE DropDigits(_)
DropDigits(s) == IF s # <<>> /\ IsDigit(Head(s)) THEN DropDigits(Tail(s)) ELSE s

\* the fraction digits of s, the first worth 1/den
RECURSIVE FracDigits(_, _)
FracDigits(s, den) ==
  IF s # <<>> /\ IsDigit(Head(s)) /\ den <= SCALE * 10
  THEN (DigitVal(Head(s)) * SCALE) \div den + FracDigits(Tail(s), den * 10)
  ELSE 0

\* atoi() of stdlib.h: leading blanks, a sign, digits; 0 when there is no digit
atoi(s) == LET b == SkipSpace(s) IN SignOf(b) * LeadingInt(Unsigned(b), 0)

\* atof() of stdlib.h on decimal notation: sign, digits, point, digits
atof(s) ==
  LET b == SkipSpace(s)
      u == Unsigned(b)
      rest == DropDigits(u)
      frac == IF rest # <<>> /\ Head(rest) = "." THEN FracDigits(Tail(rest), 10) ELSE 0
  IN Fin(SignOf(b) * (LeadingInt(u, 0) * SCALE + frac))

----------------------------------------------------------------------------
(* The uniform source: rand() and srand() of stdlib.h *)

RandMod == (RAND_MAX + 1) * 8
\* the state of a process that never called srand(): that of srand(1)
DefaultSeed == 1

\* srand(seed): the argument is converted to unsigned
srand(g, seed) == [next |-> seed % RandMod, calls |-> g.calls]

\* rand(): advances the state and returns its high bits, in 0..RAND_MAX
randState(g) == [next |-> (5 * g.next + 3) % RandMod, calls |-> g.calls + 1]
randValue(g) == randState(g).next \div 8


----------------------------------------------------------------------------
(* The normal variate generator *)

\* u = (rand() + 1.0) / (RAND_MAX + 2.0)
uniformUnshifted(r) == FDiv(FromInt(r), FAdd(FromInt(RAND_MAX), One))
uniform(r) == FDiv(FAdd(FromInt(r), One), FAdd(FromInt(RAND_MAX), Two))

\* sqrt(-2.0 * log(u1)) * cos(2.0 * M_PI * u2)
BoxMuller(u1, u2) ==
  FMul(FSqrt(FMul(FNeg(Two), FLog(u1))), FCos(FMul(FMul(Two, PI), u2)))

\* normal_rand(): two draws of the uniform source, u1 first, and one variate
normal_rand(g) ==
  LET r1 == randValue(g)
      g1 == randState(g)
      r2 == randValue(g1)
      g2 == randState(g1)
      u1 == uniform(r1)
      u2 == uniform(r2)
  IN [g |-> g2, r1 |-> r1, r2 |-> r2, u1 |-> u1, u2 |-> u2, z |-> BoxMuller(u1, u2)]

----------------------------------------------------------------------------
(* The programs' inputs *)

Variants == {"langevin", "brownian", "haruki", "normal_rand"}
Integrators == {"langevin", "brownian", "haruki"}

NormalRandWord == <<"n", "o", "r", "m", "a", "l", "_", "r", "a", "n", "d">>

A0 == <<"0">>
A1 == <<"1">>
A2 == <<"2">>
A5 == <<"5">>
AHalf == <<"0", ".", "5">>
AQuarter == <<"0", ".", "2", "5">>
ANegQuarter == <<"-", "0", ".", "2", "5">>
ANeg1 == <<"-", "1">>
AWord == <<"x">>

\* argument vectors (without argv[0]) of langevin.c: [seed]
LangevinArgs == {<<>>, <<A0>>, <<AWord>>, <<A1>>, <<A5>>, <<ANeg1>>}

\* argument vectors of the configurable integrators: [T] [m] [gamma] [dt] [n_steps]
BrownianArgs ==
  { <<>>,
    <<A2>>,
    <<A0>>,
    <<A0, A1, A1, AQuarter, A2>>,
    <<A1, A1, A1, AQuarter, A2>>,
    <<A1, A2, AHalf, AHalf, A2>>,
    <<A1, A1, A1, AQuarter, A0>>,
    <<A1, A1, A1, AQuarter, ANeg1>>,
    <<A1, A0, A1, AQuarter, A1>>,
    <<A1, ANeg1, A1, AQuarter, A1>>,
    <<A1, A1, A0, AQuarter, A1>>,
    <<A1, A1, A1, A0, A1>>,
    <<A1, A1, A1, ANegQuarter, A2>>,
    <<ANeg1, A1, A1, AQuarter, A1>> }

\* argument vectors of the sample printers
SampleArgs == {<<>>, <<A2>>, <<A0>>}
HarukiSampleArgs == {<<NormalRandWord>>, <<NormalRandWord, A1>>}

ArgsOf(v) ==
  CASE v = "langevin" -> LangevinArgs
    [] v = "brownian" -> BrownianArgs
    [] v = "haruki" -> BrownianArgs \cup HarukiSampleArgs
    [] v = "normal_rand" -> SampleArgs

Clocks == 1..MaxClock

----------------------------------------------------------------------------
(* State *)

VARIABLES
  variant,    \* which program runs
  argv,       \* its arguments, argv[1] first
  clock,      \* time(NULL) at process start
  pc,         \* position in main
  T, m, gamma, dt, n_steps,   \* simulation parameters
  coeff1, coeff2,             \* precomputed coefficients
  t, rx, ry, vx, vy,          \* particle state
  n,                          \* loop counter of the integration loop
  eta_x, eta_y,               \* the step's two normal variates
  n_samples, i,               \* sample count and loop counter of the sample printers
  rng,        \* the uniform source: its state and the number of rand() calls made
  nr,         \* the locals of the last normal_rand() call
  seeded,     \* <<s>> once srand(s) was called, <<>> before
  out,        \* the lines written to standard output
  ret,        \* <<status>> once main returned
  prev        \* <<r>> with r the record of the previous run of this program, or <<>>

params == <<T, m, gamma, dt, n_steps>>
coeffs == <<coeff1, coeff2>>
particle == <<t, rx, ry, vx, vy>>
inputs == <<variant, argv, clock>>
vars == <<variant, argv, clock, pc, T, m, gamma, dt, n_steps, coeff1, coeff2,
          t, rx, ry, vx, vy, n, eta_x, eta_y, n_samples, i, rng, nr, seeded,
          out, ret, prev>>

kB == One
argc == Len(argv) + 1

NoCall == [r1 |-> 0, r2 |-> 0, u1 |-> Zero, u2 |-> Zero]

\* a process at its entry to main with the given inputs
Fresh(v, a, c) ==
  /\ variant = v /\ argv = a /\ clock = c
  /\ pc = "start"
  /\ T = Zero /\ m = Zero /\ gamma = Zero /\ dt = Zero /\ n_steps = 0
  /\ coeff1 = Zero /\ coeff2 = Zero
  /\ t = Zero /\ rx = Zero /\ ry = Zero /\ vx = Zero /\ vy = Zero
  /\ n = 0 /\ eta_x = Zero /\ eta_y = Zero
  /\ n_samples = 0 /\ i = 0
  /\ rng = [next |-> DefaultSeed, calls |-> 0]
  /\ nr = NoCall
  /\ seeded = <<>>
  /\ out = <<>>
  /\ ret = <<>>

Init ==
  /\ \E v \in Variants : \E a \in ArgsOf(v) : \E c \in Clocks : Fresh(v, a, c)
  /\ prev = <<>>


----------------------------------------------------------------------------
(* Output lines *)

Header == [kind |-> "header", fmt |-> "# t x y vx vy", vals |-> <<>>]
FormatOf(v) == IF v = "langevin" THEN "%.6f" ELSE "%.15e"
Row(v, a, b, c, d, e) == [kind |-> "row", fmt |-> FormatOf(v), vals |-> <<a, b, c, d, e>>]
Sample(z) == [kind |-> "sample", fmt |-> "%.15e", vals |-> <<z>>]

----------------------------------------------------------------------------
(* main: arguments, set-up, seeding *)

\* the k-th argument as a double or an int, or the default when it is absent
ArgDouble(k, default) == IF argc >= k + 1 THEN atof(argv[k]) ELSE default
ArgInt(k, default) == IF argc >= k + 1 THEN atoi(argv[k]) ELSE default

\* dt = 0.01
DefaultDt == FDiv(One, FromInt(100))

SampleMode == variant = "haruki" /\ argc >= 2 /\ argv[1] = NormalRandWord

\* normal_rand.c reads argv[1] without looking at argc: with no argument atoi(NULL)
\* is undefined, and the build may crash or go on with any count
ParseOutcomes ==
  IF variant = "normal_rand" /\ argc < 2 THEN {"crash", "count0", "count1"} ELSE {"defined"}

ParseArgs ==
  /\ pc = "start"
  /\ \E o \in ParseOutcomes :
       /\ T' = IF variant = "langevin" THEN One
               ELSE IF variant = "normal_rand" \/ SampleMode THEN T
               ELSE ArgDouble(1, One)
       /\ m' = IF variant = "langevin" THEN One
               ELSE IF variant = "normal_rand" \/ SampleMode THEN m
               ELSE ArgDouble(2, One)
       /\ gamma' = IF variant = "langevin" THEN One
                   ELSE IF variant = "normal_rand" \/ SampleMode THEN gamma
                   ELSE ArgDouble(3, One)
       /\ dt' = IF variant = "langevin" THEN DefaultDt
                ELSE IF variant = "normal_rand" \/ SampleMode THEN dt
                ELSE ArgDouble(4, DefaultDt)
       /\ n_steps' = IF variant = "langevin" THEN DefaultSteps
                     ELSE IF variant = "normal_rand" \/ SampleMode THEN n_steps
                     ELSE ArgInt(5, DefaultSteps)
       /\ n_samples' = IF SampleMode THEN ArgInt(2, DefaultSamples)
                       ELSE IF variant # "normal_rand" THEN n_samples
                       ELSE IF o = "defined" THEN atoi(argv[1])
                       ELSE IF o = "count1" THEN 1 ELSE 0
       /\ pc' = IF o = "crash" THEN "crashed"
                ELSE IF variant = "normal_rand" \/ SampleMode THEN "nr_seed"
                ELSE "setup"
  /\ UNCHANGED <<inputs, coeffs, particle, n, eta_x, eta_y, i, rng, nr, seeded, out, ret, prev>>

\* coeff1 = gamma / m
Friction(g, mass) == FDiv(g, mass)

\* sqrt(2.0 * gamma * kB * T / m), which langevin.c multiplies by sqrt(dt) once
NoiseBadNoT(v, g, temp, mass, step) ==
  LET c == FSqrt(FDiv(FMul(FMul(Two, g), kB), mass))
  IN IF v = "langevin" THEN FMul(c, FSqrt(step)) ELSE c
Noise(v, g, temp, mass, step) ==
  LET c == FSqrt(FDiv(FMul(FMul(FMul(Two, g), kB), temp), mass))
  IN IF v = "langevin" THEN FMul(c, FSqrt(step)) ELSE c

\* the initial condition and the two coefficients
Setup ==
  /\ pc = "setup"
  /\ t' = Zero /\ rx' = Zero /\ ry' = Zero /\ vx' = Zero /\ vy' = Zero
  /\ coeff1' = Friction(gamma, m)
  /\ coeff2' = Noise(variant, gamma, T, m, dt)
  /\ pc' = "seed"
  /\ UNCHANGED <<inputs, params, n, eta_x, eta_y, n_samples, i, rng, nr, seeded, out, ret, prev>>

\* what the program seeds the uniform source with: <<s>>, or <<>> to leave it alone
SeedClockWhenZero(v, a, c) ==
  IF v = "langevin"
  THEN LET seed == IF Len(a) + 1 > 1 THEN atoi(a[1]) ELSE 0
       IN IF seed # 0 THEN <<seed>> ELSE <<c>>
  ELSE <<c>>
SeedAlways(v, a, c) ==
  IF v = "langevin" THEN <<IF Len(a) + 1 > 1 THEN atoi(a[1]) ELSE 0>> ELSE <<c>>
SeedChoice(v, a, c) ==
  IF v = "langevin"
  THEN LET seed == IF Len(a) + 1 > 1 THEN atoi(a[1]) ELSE 0
       IN IF seed # 0 THEN <<seed>> ELSE <<>>
  ELSE <<c>>

Seed ==
  /\ pc \in {"seed", "nr_seed"}
  /\ LET s == SeedChoice(variant, argv, clock)
     IN /\ seeded' = s
        /\ rng' = IF s = <<>> THEN rng ELSE srand(rng, s[1])
  /\ pc' = IF pc = "seed" THEN "header" ELSE "nr_loop"
  /\ UNCHANGED <<inputs, params, coeffs, particle, n, eta_x, eta_y, n_samples, i, nr, out, ret, prev>>

EmitHeader ==
  /\ pc = "header"
  /\ out' = Append(out, Header)
  /\ pc' = "row0"
  /\ UNCHANGED <<inputs, params, coeffs, particle, n, eta_x, eta_y, n_samples, i, rng, nr, seeded, ret, prev>>

\* the initial state; langevin.c prints the literal 0.0 as its time
EmitInitial ==
  /\ pc = "row0"
  /\ out' = Append(out, Row(variant, IF variant = "langevin" THEN Zero ELSE t, rx, ry, vx, vy))
  /\ n' = 0
  /\ pc' = "loop"
  /\ UNCHANGED <<inputs, params, coeffs, particle, eta_x, eta_y, n_samples, i, rng, nr, seeded, ret, prev>>


----------------------------------------------------------------------------
(* main: the integration loop *)

\* for (int n = 0; n < n_steps; n++)
LoopCondInclusive(k, steps) == k <= steps
LoopCond(k, steps) == k < steps

\* the statements of the loop body, in the order of the source
BodyOrderPositionFirst ==
  <<"eta_x", "eta_y", "upd_rx", "upd_ry", "upd_vx", "upd_vy", "upd_t", "emit">>
BodyOrder ==
  <<"eta_x", "eta_y", "upd_vx", "upd_vy", "upd_rx", "upd_ry", "upd_t", "emit">>

BodyPcs == {BodyOrder[j] : j \in 1..Len(BodyOrder)}
After(p) ==
  LET j == CHOOSE k \in 1..Len(BodyOrder) : BodyOrder[k] = p
  IN IF j = Len(BodyOrder) THEN "loop" ELSE BodyOrder[j + 1]

LoopTest ==
  /\ pc = "loop"
  /\ pc' = IF LoopCond(n, n_steps) THEN BodyOrder[1] ELSE "ret"
  /\ UNCHANGED <<inputs, params, coeffs, particle, n, eta_x, eta_y, n_samples, i, rng, nr, seeded, out, ret, prev>>

\* the call's effect on the uniform source and on the generator's locals
DrawThrice(g) ==
  LET d == normal_rand(g) IN [d EXCEPT !.g = randState(d.g)]
Draw(g) == normal_rand(g)

GenEtaX ==
  /\ pc = "eta_x"
  /\ LET d == Draw(rng)
     IN /\ eta_x' = d.z
        /\ rng' = d.g
        /\ nr' = [r1 |-> d.r1, r2 |-> d.r2, u1 |-> d.u1, u2 |-> d.u2]
  /\ pc' = After(pc)
  /\ UNCHANGED <<inputs, params, coeffs, particle, n, eta_y, n_samples, i, seeded, out, ret, prev>>

GenEtaY ==
  /\ pc = "eta_y"
  /\ LET d == Draw(rng)
     IN /\ eta_y' = d.z
        /\ rng' = d.g
        /\ nr' = [r1 |-> d.r1, r2 |-> d.r2, u1 |-> d.u1, u2 |-> d.u2]
  /\ pc' = After(pc)
  /\ UNCHANGED <<inputs, params, coeffs, particle, n, eta_x, n_samples, i, seeded, out, ret, prev>>

\* v - coeff1 * v * dt + coeff2 * eta (langevin.c) or
\* v - coeff1 * v * dt + coeff2 * sqrt(dt) * eta (the configurable integrators)
Velocity(var, v, c1, c2, step, eta) ==
  LET drag == FMul(FMul(c1, v), step)
      kick == IF var = "langevin" THEN FMul(c2, eta)
              ELSE FMul(FMul(c2, FSqrt(step)), eta)
  IN FAdd(FSub(v, drag), kick)

\* r += v * dt
Position(r, v, step) == FAdd(r, FMul(v, step))

\* a velocity update that folds sqrt(dt) into the stored coefficient
UpdateVxRescaling ==
  /\ pc = "upd_vx"
  /\ coeff2' = FMul(coeff2, FSqrt(dt))
  /\ vx' = FAdd(FSub(vx, FMul(FMul(coeff1, vx), dt)), FMul(coeff2', eta_x))
  /\ pc' = After(pc)
  /\ UNCHANGED <<inputs, params, coeff1, t, rx, ry, vy, n, eta_x, eta_y, n_samples, i, rng, nr, seeded, out, ret, prev>>
UpdateVx ==
  /\ pc = "upd_vx"
  /\ vx' = Velocity(variant, vx, coeff1, coeff2, dt, eta_x)
  /\ pc' = After(pc)
  /\ UNCHANGED <<inputs, params, coeffs, t, rx, ry, vy, n, eta_x, eta_y, n_samples, i, rng, nr, seeded, out, ret, prev>>

UpdateVy ==
  /\ pc = "upd_vy"
  /\ vy' = Velocity(variant, vy, coeff1, coeff2, dt, eta_y)
  /\ pc' = After(pc)
  /\ UNCHANGED <<inputs, params, coeffs, t, rx, ry, vx, n, eta_x, eta_y, n_samples, i, rng, nr, seeded, out, ret, prev>>

UpdateRx ==
  /\ pc = "upd_rx"
  /\ rx' = Position(rx, vx, dt)
  /\ pc' = After(pc)
  /\ UNCHANGED <<inputs, params, coeffs, t, ry, vx, vy, n, eta_x, eta_y, n_samples, i, rng, nr, seeded, out, ret, prev>>

UpdateRy ==
  /\ pc = "upd_ry"
  /\ ry' = Position(ry, vy, dt)
  /\ pc' = After(pc)
  /\ UNCHANGED <<inputs, params, coeffs, t, rx, vx, vy, n, eta_x, eta_y, n_samples, i, rng, nr, seeded, out, ret, prev>>

\* double t = (n + 1) * dt (langevin.c) or t += dt (the configurable integrators)
Time(var, now, k, step) ==
  IF var = "langevin" THEN FMul(FromInt(k + 1), step) ELSE FAdd(now, step)

UpdateT ==
  /\ pc = "upd_t"
  /\ t' = Time(variant, t, n, dt)
  /\ pc' = After(pc)
  /\ UNCHANGED <<inputs, params, coeffs, rx, ry, vx, vy, n, eta_x, eta_y, n_samples, i, rng, nr, seeded, out, ret, prev>>

\* the step's row, and the loop's n++
EmitRow ==
  /\ pc = "emit"
  /\ out' = Append(out, Row(variant, t, rx, ry, vx, vy))
  /\ n' = n + 1
  /\ pc' = After(pc)
  /\ UNCHANGED <<inputs, params, coeffs, particle, eta_x, eta_y, n_samples, i, rng, nr, seeded, ret, prev>>

----------------------------------------------------------------------------
(* The sample printers: main of normal_rand.c, run_normal_rand of report1_haruki.c *)

PrintSample ==
  /\ pc = "nr_loop"
  /\ i < n_samples
  /\ LET d == Draw(rng)
     IN /\ out' = Append(out, Sample(d.z))
        /\ rng' = d.g
        /\ nr' = [r1 |-> d.r1, r2 |-> d.r2, u1 |-> d.u1, u2 |-> d.u2]
  /\ i' = i + 1
  /\ UNCHANGED <<inputs, pc, params, coeffs, particle, n, eta_x, eta_y, n_samples, seeded, ret, prev>>

SamplesDone ==
  /\ pc = "nr_loop"
  /\ ~(i < n_samples)
  /\ pc' = "ret"
  /\ UNCHANGED <<inputs, params, coeffs, particle, n, eta_x, eta_y, n_samples, i, rng, nr, seeded, out, ret, prev>>

----------------------------------------------------------------------------
(* Exit, and the next run *)

\* return 0
Return ==
  /\ pc = "ret"
  /\ ret' = <<0>>
  /\ pc' = "done"
  /\ UNCHANGED <<inputs, params, coeffs, particle, n, eta_x, eta_y, n_samples, i, rng, nr, seeded, out, prev>>

RunRecord ==
  [variant |-> variant, argv |-> argv, clock |-> clock, seeded |-> seeded,
   out |-> out, ret |-> ret]

\* the same program is started once more, as a new process
Restart ==
  /\ pc \in {"done", "crashed"}
  /\ prev = <<>>
  /\ prev' = <<RunRecord>>
  /\ variant' = variant
  /\ \E a \in ArgsOf(variant) : argv' = a
  /\ \E c \in Clocks : clock' = c
  /\ pc' = "start"
  /\ T' = Zero /\ m' = Zero /\ gamma' = Zero /\ dt' = Zero /\ n_steps' = 0
  /\ coeff1' = Zero /\ coeff2' = Zero
  /\ t' = Zero /\ rx' = Zero /\ ry' = Zero /\ vx' = Zero /\ vy' = Zero
  /\ n' = 0 /\ eta_x' = Zero /\ eta_y' = Zero
  /\ n_samples' = 0 /\ i' = 0
  /\ rng' = [next |-> DefaultSeed, calls |-> 0]
  /\ nr' = NoCall
  /\ seeded' = <<>>
  /\ out' = <<>>
  /\ ret' = <<>>

Next ==
  \/ ParseArgs \/ Setup \/ Seed \/ EmitHeader \/ EmitInitial \/ LoopTest
  \/ GenEtaX \/ GenEtaY \/ UpdateVx \/ UpdateVy \/ UpdateRx \/ UpdateRy
  \/ UpdateT \/ EmitRow \/ PrintSample \/ SamplesDone \/ Return \/ Restart

Spec == Init /\ [][Next]_vars


----------------------------------------------------------------------------
(* Vocabulary of the properties *)

\* the run is an integrator run (not a sample printer)
Integrator == variant \in Integrators /\ ~SampleMode
Parsed == pc # "start"
InLoop == pc \in BodyPcs \cup {"loop"}
Positive(a) == FLess(Zero, a)
StepsRun == IF n_steps > 0 THEN n_steps ELSE 0
ZeroRow == <<Zero, Zero, Zero, Zero, Zero>>
TimeOf(line) == line.vals[1]
SeedArgOf(a) == IF a = <<>> THEN 0 ELSE atoi(a[1])

----------------------------------------------------------------------------
(* C1: for a step count N >= 0 the output is the header line first, then N + 1 *)
(* data rows, the first of them (0,0,0,0,0); N = 0 gives the header and one    *)
(* row and draws nothing from the generator.                                   *)
C1_TrajectoryLength ==
  (Integrator /\ Parsed /\ n_steps >= 0) =>
    /\ out # <<>> => out[1] = Header
    /\ \A j \in 2..Len(out) : out[j].kind = "row"
    /\ Len(out) >= 2 => out[2].vals = ZeroRow
    /\ Len(out) <= n_steps + 2
    /\ pc = "done" => Len(out) = n_steps + 2
    /\ (pc = "done" /\ n_steps = 0) => rng.calls = 0

\* a run of two steps has ended with four lines, after a run of no step with two
C1_Witness ==
  /\ pc = "done" /\ Integrator /\ n_steps = 2 /\ Len(out) = 4
  /\ prev # <<>> /\ Len(prev[1].argv) = 5 /\ atoi(prev[1].argv[5]) = 0
  /\ Len(prev[1].out) = 2

----------------------------------------------------------------------------
(* C2: a run with an invalid parameter (m <= 0, gamma <= 0, dt <= 0, N <= 0 or *)
(* T < 0) is rejected before integration: no output, no step, an error status. *)
InvalidParams ==
  \/ ~Positive(m) \/ ~Positive(gamma) \/ ~Positive(dt)
  \/ n_steps <= 0 \/ FLess(T, Zero)

C2_InvalidRejected ==
  (Integrator /\ Parsed /\ InvalidParams) =>
    /\ out = <<>>
    /\ rng.calls = 0
    /\ pc \notin BodyPcs
    /\ ret # <<0>>

\* C2 for a run whose mass alone is invalid (m = 0): no row, no success status
C2_ZeroMassRejected ==
  (Integrator /\ Parsed /\ m = Zero /\ Positive(gamma) /\ Positive(dt)
     /\ n_steps > 0 /\ ~FLess(T, Zero)) =>
    /\ \A j \in 1..Len(out) : out[j].kind # "row"
    /\ ret # <<0>>

----------------------------------------------------------------------------
(* C3: two integrator runs with the same seed and the same parameters emit the *)
(* same trajectory, whatever the wall-clock time at which they start.          *)
C3_ClockIndependent ==
  (pc = "done" /\ Integrator /\ prev # <<>> /\ prev[1].argv = argv) =>
    prev[1].out = out

(* C3 as amended: two runs of the same integrator with the same arguments emit *)
(* the same trajectory when the uniform source is seeded alike: always in      *)
(* langevin.c, whose seed is its argument, and in the configurable integrators,*)
(* which seed with time(NULL), when both start in the same clock second.       *)
C3_SameSeedSameTrajectory ==
  (pc = "done" /\ Integrator /\ prev # <<>> /\ prev[1].argv = argv
     /\ (variant = "langevin" \/ prev[1].clock = clock)) =>
    /\ prev[1].seeded = seeded
    /\ prev[1].out = out

\* a configurable integrator has run twice in the same second, with noise
C3_Witness ==
  /\ pc = "done" /\ variant = "brownian" /\ prev # <<>>
  /\ prev[1].argv = argv /\ prev[1].clock = clock
  /\ Len(out) >= 4 /\ Positive(T) /\ vx # Zero /\ IsFinite(vx)

----------------------------------------------------------------------------
(* C4: every raw value r in 0..RAND_MAX maps to u = (r + 1) / (RAND_MAX + 2)   *)
(* with 0 < u < 1, so the u1 and u2 of normal_rand are never 0 and never 1 and *)
(* the logarithm's argument is positive.                                       *)
C4_OpenInterval ==
  /\ \A r \in 0..RAND_MAX : Positive(uniform(r)) /\ FLess(uniform(r), One)
  /\ rng.calls > 0 =>
       /\ nr.r1 \in 0..RAND_MAX /\ nr.r2 \in 0..RAND_MAX
       /\ Positive(nr.u1) /\ FLess(nr.u1, One)
       /\ Positive(nr.u2) /\ FLess(nr.u2, One)
       /\ IsFinite(FLog(nr.u1))
       /\ IsFinite(BoxMuller(nr.u1, nr.u2))

\* a call of normal_rand drew the smallest raw value for u1
C4_Witness == rng.calls > 0 /\ nr.r1 = 0 /\ nr.u1 = uniform(0)

----------------------------------------------------------------------------
(* C5: the time of the i-th data row is i * dt: t starts at 0, advances by dt  *)
(* on each step and never decreases.                                           *)
C5_TimeMonotone ==
  Integrator =>
    /\ \A j \in 2..Len(out) : TimeOf(out[j]) = Fin((j - 2) * dt.v)
    /\ \A j \in 3..Len(out) : ~FLess(TimeOf(out[j]), TimeOf(out[j - 1]))

\* the part of C5 that holds for every dt the code accepts: row i has time i * dt
C5_RowTimes ==
  Integrator =>
    \A j \in 2..Len(out) : TimeOf(out[j]) = Fin((j - 2) * dt.v)

----------------------------------------------------------------------------
(* C6: with T = 0 and m, gamma, dt positive the run is accepted and completes  *)
(* its N steps; the noise contributes nothing, so every row has                *)
(* x = y = vx = vy = 0 whatever variates were drawn.                           *)
C6_ZeroTemperature ==
  (Integrator /\ pc \notin {"start", "setup"} /\ T = Zero
     /\ Positive(m) /\ Positive(gamma) /\ Positive(dt)) =>
    /\ pc # "crashed"
    /\ rx = Zero /\ ry = Zero /\ vx = Zero /\ vy = Zero
    /\ \A j \in 2..Len(out) :
         \A c \in 2..5 : out[j].vals[c] = Zero
    /\ pc = "done" => (ret = <<0>> /\ Len(out) = StepsRun + 2)

\* a run at T = 0 has completed two or more steps, having drawn nonzero variates
C6_Witness ==
  /\ Integrator /\ pc = "done" /\ T = Zero
  /\ Positive(m) /\ Positive(gamma) /\ Positive(dt)
  /\ n_steps >= 2 /\ Len(out) = n_steps + 2
  /\ eta_x # Zero /\ eta_y # Zero /\ eta_x # eta_y

----------------------------------------------------------------------------
(* C7: each step first sets v_new = v_old - (gamma/m) v_old dt                 *)
(* + sqrt(2 gamma kB T / m) sqrt(dt) eta in each dimension and then advances   *)
(* the position with the updated velocity, r_new = r_old + v_new dt; x and y   *)
(* follow the same rule and do not influence each other.                       *)
LangevinVelocity(v, eta) ==
  LET friction == FMul(FMul(FDiv(gamma, m), v), dt)
      sigma == FSqrt(FDiv(FMul(FMul(FMul(Two, gamma), kB), T), m))
  IN FAdd(FSub(v, friction), FMul(FMul(sigma, FSqrt(dt)), eta))

C7_UpdateRule ==
  (Integrator /\ pc = "loop" /\ n >= 1) =>
    LET new == out[Len(out)].vals
        old == out[Len(out) - 1].vals
    IN /\ new[4] = LangevinVelocity(old[4], eta_x)
       /\ new[5] = LangevinVelocity(old[5], eta_y)
       /\ new[2] = FAdd(old[2], FMul(new[4], dt))
       /\ new[3] = FAdd(old[3], FMul(new[5], dt))
       /\ new = <<t, rx, ry, vx, vy>>

\* a second step has been emitted whose velocity, finite and nonzero, differs
\* from the one before it in both dimensions
C7_Witness ==
  /\ Integrator /\ pc = "loop" /\ n >= 2
  /\ IsFinite(vx) /\ IsFinite(vy) /\ vx # Zero /\ vy # Zero /\ vx # vy
  /\ out[Len(out) - 1].vals[4] # Zero
  /\ out[Len(out) - 1].vals[4] # vx
  /\ out[Len(out) - 1].vals[5] # vy
  /\ FAdd(out[Len(out) - 1].vals[2], FMul(out[Len(out) - 1].vals[4], dt)) # rx

----------------------------------------------------------------------------
(* C8: a step calls the generator twice, eta_x first, and a call makes two     *)
(* draws of the uniform source, u1 first; a completed run of N steps has made  *)
(* 4 N draws, and no other statement of the loop advances the source.          *)
C8_Draws ==
  [][Integrator =>
       /\ pc \in {"eta_x", "eta_y"} =>
            /\ rng'.calls = rng.calls + 2
            /\ nr'.r1 = randValue(rng)
            /\ nr'.r2 = randValue(randState(rng))
            /\ rng'.next = randState(randState(rng)).next
       /\ pc = "eta_x" => (pc' = "eta_y" /\ eta_x' = BoxMuller(nr'.u1, nr'.u2))
       /\ pc = "eta_y" => eta_y' = BoxMuller(nr'.u1, nr'.u2)
       /\ pc \in {"loop", "upd_vx", "upd_vy", "upd_rx", "upd_ry", "upd_t", "emit", "ret"} =>
            rng' = rng
       /\ pc = "emit" => rng.calls = 4 * (n + 1)
       /\ pc' = "done" => rng'.calls = 4 * StepsRun]_vars

\* a run of two steps has ended after eight draws
C8_Witness ==
  Integrator /\ pc = "done" /\ n_steps = 2 /\ rng.calls = 8 /\ Len(out) = 4

----------------------------------------------------------------------------
(* C9: gamma/m and sqrt(2 gamma kB T / m) are computed once before the loop,   *)
(* and no step of the loop changes them or T, m, gamma, dt, N.                 *)
C9_CoefficientsFrozen ==
  [][(Integrator /\ InLoop) =>
       /\ UNCHANGED <<params, coeffs>>
       /\ coeff1 = FDiv(gamma, m)
       /\ coeff2 = LET sigma == FSqrt(FDiv(FMul(FMul(FMul(Two, gamma), kB), T), m))
                   IN IF variant = "langevin" THEN FMul(sigma, FSqrt(dt)) ELSE sigma]_vars

\* a second step is about to be emitted, with a nonzero noise coefficient
C9_Witness ==
  Integrator /\ pc = "emit" /\ n >= 1 /\ IsFinite(coeff2) /\ coeff2 # Zero

----------------------------------------------------------------------------
(* C10: langevin.c seeds the uniform source only when its first argument       *)
(* parses to a nonzero integer; with the argument absent, 0 or not a number    *)
(* the source keeps its default state, and all such runs emit the same         *)
(* trajectory.                                                                 *)
C10_ZeroSeedIsNoSeed ==
  variant = "langevin" =>
    /\ pc \notin {"start", "setup", "seed"} =>
         /\ seeded = <<>> <=> SeedArgOf(argv) = 0
         /\ seeded # <<>> => seeded = <<SeedArgOf(argv)>>
    /\ (pc = "header" /\ SeedArgOf(argv) = 0) =>
         rng = [next |-> DefaultSeed, calls |-> 0]
    /\ (pc = "done" /\ prev # <<>> /\ SeedArgOf(argv) = 0
          /\ SeedArgOf(prev[1].argv) = 0) =>
         prev[1].out = out

\* a run without argument was followed by a run with an argument that parses to 0
C10_Witness ==
  /\ variant = "langevin" /\ pc = "done" /\ prev # <<>>
  /\ prev[1].argv = <<>> /\ argv # <<>> /\ SeedArgOf(argv) = 0
  /\ Len(out) = DefaultSteps + 2 /\ vx # Zero

====
